---- MODULE Spec2Model ----
(***************************************************************************)
(* Overtime-to-leave entitlement engine of the Noah HR backend:            *)
(* routers/overtime.py (the seven request handlers), api_utils/overtime.py *)
(* (the entitlement calculator) and the OvertimeRequest / OvertimeLeave    *)
(* tables of models.py.                                                    *)
(*                                                                         *)
(* Numbers.  hours, ot_hours and leave_days are Float columns.  They are   *)
(* modelled as exact fixed-point numbers: the integer n stands for the     *)
(* real n / Scale.  Every input of hours is a whole number of hours, so    *)
(* every product by 1.5 or 2.0 and every division by 8 the code performs   *)
(* is exact at this scale (as it is in binary floating point).             *)
(*                                                                         *)
(* Strings.  An Optional[str] is a sequence of text segments; Python's +   *)
(* is \o; None is the distinguished value None, "" is << >>.               *)
(***************************************************************************)
EXTENDS Integers, Sequences, FiniteSets, TLC

VARIABLES
    users,         \* table users: id -> row
    requests,      \* table overtime_requests: id -> row
    nextId,        \* the serial of overtime_requests.id
    ledger,        \* table overtime_leaves, in insertion order (index = id)
    attachments,   \* number of rows of table attachments
    resp,          \* the response of the last handler call
    txn,           \* the open database sessions of in-flight approve/reject calls
    calc           \* a direct call of a function of api_utils: arguments, result

vars == <<users, requests, nextId, ledger, attachments, resp, txn, calc>>

----------------------------------------------------------------------------
(* Bounds of the model *)

MaxRequests == 2

Procs == {"s1", "s2"}

RequestIds == 1 .. MaxRequests

HoursSet == {0, 4, 36}

----------------------------------------------------------------------------
(* Numbers *)

Scale == 16

Fixed(n) == n * Scale

MaxLeaveDays == 9

max(a, b) == IF a >= b THEN a ELSE b

min(a, b) == IF a <= b THEN a ELSE b

Mul(a, b) == (a * b) \div Scale

----------------------------------------------------------------------------
(* Strings *)

None == <<"None">>

OrEmpty(s) == IF s = None THEN << >> ELSE s

AttachmentSet == {FALSE}

CommentSet == {<<"ok">>}

ReasonSet == {<<"release">>}

----------------------------------------------------------------------------
(* Dates: datetime.date as [year, month, day] *)

Date(y, m, d) == [year |-> y, month |-> m, day |-> d]

is_leap(y) == y % 4 = 0 /\ (y % 100 # 0 \/ y % 400 = 0)

days_before_year(y) ==
    (y - 1) * 365 + ((y - 1) \div 4) - ((y - 1) \div 100) + ((y - 1) \div 400)

days_before_month(y, m) ==
    LET table == <<0, 31, 59, 90, 120, 151, 181, 212, 243, 273, 304, 334>>
    IN  table[m] + (IF m > 2 /\ is_leap(y) THEN 1 ELSE 0)

toordinal(date) ==
    days_before_year(date.year) + days_before_month(date.year, date.month) + date.day

weekday(date) == (toordinal(date) + 6) % 7

DateGT(a, b) == toordinal(a) > toordinal(b)

Today == Date(2025, 6, 9)

DateSet ==
    { Date(2024, 12, 28),    \* a Saturday of the previous year
      Date(2025, 6, 2),      \* a Monday
      Date(2025, 6, 7),      \* a Saturday
      Date(2025, 6, 14) }    \* a Saturday after Today

----------------------------------------------------------------------------
(* Table users: no handler modelled here writes it.  manager_id 0 is NULL;  *)
(* grade is a String column.                                               *)

UserIds == {1, 2, 3}

UserTable ==
    [u \in UserIds |->
        CASE u = 1 -> [id |-> 1, manager_id |-> 0, grade |-> "5"]
          [] u = 2 -> [id |-> 2, manager_id |-> 1, grade |-> "2"]
          [] u = 3 -> [id |-> 3, manager_id |-> 2, grade |-> "4"]]

\* the users who file overtime requests in the model
Employees == {2, 3}

\* int(grade) for the decimal strings used as grades; surrounding blanks and
\* leading zeros are accepted by int() and do not change the value
int(s) ==
    CASE s = "1" -> 1 [] s = "2" -> 2 [] s = "3" -> 3 [] s = "4" -> 4
      [] s = "5" -> 5 [] s = "9" -> 9 [] s = "0" -> 0 [] s = "6" -> 6
      [] s = "-1" -> (0 - 1) [] s = "10" -> 10 [] s = " 3" -> 3 [] s = "04" -> 4

----------------------------------------------------------------------------
(* api_utils/overtime.py *)

\* mutant: only Sunday counts as weekend
multiplier_sunday_only(date) ==
    IF weekday(date) >= 6 THEN Fixed(2) ELSE (Fixed(3) \div 2)

\* is_weekend = weekday >= 5; multiplier = 2.0 if is_weekend else 1.5
multiplier(date) ==
    IF weekday(date) >= 5 THEN Fixed(2) ELSE (Fixed(3) \div 2)

\* mutant: the 4-hour limit is applied to grade 5 only
entitled_hours_limit_grade_5_only(g, hours, m) ==
    IF g \in {1, 2, 3, 4} THEN Mul(hours, m)
    ELSE IF g \in {5} THEN Mul(min(hours, Fixed(4)), m)
    ELSE 0

\* mutant: an unknown grade is treated like grades 4 and 5
entitled_hours_unknown_as_limited(g, hours, m) ==
    IF g \in {1, 2, 3} THEN Mul(hours, m)
    ELSE Mul(min(hours, Fixed(4)), m)

\* the grade rules
entitled_hours(g, hours, m) ==
    IF g \in {1, 2, 3} THEN Mul(hours, m)
    ELSE IF g \in {4, 5} THEN Mul(min(hours, Fixed(4)), m)
    ELSE 0

grade_rule_msg(g, hours) ==
    IF g \in {1, 2, 3} THEN "All OT hours are counted."
    ELSE IF g \in {4, 5}
         THEN (IF hours > Fixed(4)
               THEN "Only first 4 hours counted for entitlement."
               ELSE "Max 4 OT hours per day counted.")
    ELSE "Unknown grade. No entitlement."

\* mutant: the leave days are whole days
entitled_leave_days_floored(hrs) == Fixed(hrs \div Fixed(8))

\* 'entitled_leave_days': entitled_hours / 8
entitled_leave_days(hrs) == hrs \div 8

\* mutant: the total is compared without the floor division
capped_unfloored(total_hours) == total_hours > Fixed(8 * MaxLeaveDays)

\* leave_days = total_hours // 8; capped = leave_days > 9
capped(total_hours) ==
    LET leave_days == Fixed(total_hours \div Fixed(8))
    IN  leave_days > Fixed(MaxLeaveDays)

calculate_overtime_entitlement(date, hours, grade, year_total_hours) ==
    LET m  == multiplier(date)
        g  == int(grade)
        eh == entitled_hours(g, hours, m)
        total_hours == year_total_hours + eh
    IN  [entitled_hours      |-> eh,
         entitled_leave_days |-> entitled_leave_days(eh),
         capped              |-> capped(total_hours),
         message             |-> IF capped(total_hours)
                                 THEN <<"maximum allowed is 9 per year">>
                                 ELSE <<"This request will grant you",
                                        ToString(eh), grade_rule_msg(g, hours)>>]

----------------------------------------------------------------------------
(* Queries *)

RECURSIVE SumLeaveDays(_, _)
SumLeaveDays(rows, n) ==
    IF n = 0 THEN 0 ELSE rows[n].leave_days + SumLeaveDays(rows, n - 1)

\* mutant: the filter on OvertimeLeave.year is missing
total_ot_leave_any_year(rows, user_id, year) ==
    LET sel == SelectSeq(rows, LAMBDA r : r.user_id = user_id)
    IN  SumLeaveDays(sel, Len(sel))

\* func.coalesce(func.sum(OvertimeLeave.leave_days), 0) filtered by user and year
total_ot_leave(rows, user_id, year) ==
    LET sel == SelectSeq(rows, LAMBDA r : r.user_id = user_id /\ r.year = year)
    IN  SumLeaveDays(sel, Len(sel))

\* db.query(OvertimeRequest).filter(user_id == ..., date == ...).first()
existing(user_id, date) ==
    {i \in DOMAIN requests : requests[i].user_id = user_id /\ requests[i].date = date}

\* mutant: the status check is missing
not_pending_unchecked(db_request) == FALSE

\* mutant: the check only refuses rejected requests
not_pending_rejected_only(db_request) == db_request.status = "rejected"

\* mutant: the check only refuses approved requests
not_pending_approved_only(db_request) == db_request.status = "approved"

\* if db_request.status != "pending": raise HTTPException(400)
not_pending(db_request) == db_request.status # "pending"

CapWarning == <<"Your request will be auto-rejected.">>

\* mutant: a projected total of exactly 9 days counts as exceeding
exceeds_cap_inclusive(new_total) == new_total >= Fixed(MaxLeaveDays)

\* mutant: the projected total is floored to whole days, as the calculator does
exceeds_cap_floored(new_total) == Fixed(new_total \div Scale) > Fixed(MaxLeaveDays)

\* if new_total > 9 (preview and create)
exceeds_cap(new_total) == new_total > Fixed(MaxLeaveDays)

Response(op, code) == [op |-> op, code |-> code]

DbUnchanged == UNCHANGED <<users, requests, nextId, ledger, attachments>>

\* no direct call has been made
NoCall == [called |-> FALSE]

----------------------------------------------------------------------------
(* routers/overtime.py: the handlers, each one database transaction *)

Init ==
    /\ users = UserTable
    /\ requests = << >>
    /\ nextId = 1
    /\ ledger = << >>
    /\ attachments = 0
    /\ resp = Response("none", 0)
    /\ txn = [p \in Procs |-> [pc |-> "idle"]]
    /\ calc = NoCall

\* The OvertimePreviewResponse (or the HTTPException) preview returns.
\* mutant: the calculator is given the hours behind the year's ledger total
preview_response_with_year_total(current_user, date, hours) ==
    IF DateGT(date, Today)
    THEN [code |-> 400, detail |-> "Cannot preview overtime for a future date."]
    ELSE IF existing(current_user, date) # {}
    THEN [code |-> 400, detail |-> "a request already exists for this date."]
    ELSE LET total  == total_ot_leave(ledger, current_user, date.year)
             result == calculate_overtime_entitlement(
                           date, hours, users[current_user].grade, total * 8)
             new_total == total + result.entitled_leave_days
         IN  [code |-> 200,
              entitled_hours |-> result.entitled_hours,
              entitled_leave_days |-> result.entitled_leave_days,
              capped |-> result.capped,
              message |-> IF exceeds_cap(new_total)
                          THEN CapWarning ELSE result.message]

preview_response(current_user, date, hours) ==
    IF DateGT(date, Today)
    THEN [code |-> 400, detail |-> "Cannot preview overtime for a future date."]
    ELSE IF existing(current_user, date) # {}
    THEN [code |-> 400, detail |-> "a request already exists for this date."]
    ELSE LET total  == total_ot_leave(ledger, current_user, date.year)
             result == calculate_overtime_entitlement(
                           date, hours, users[current_user].grade, 0)
             new_total == total + result.entitled_leave_days
         IN  [code |-> 200,
              entitled_hours |-> result.entitled_hours,
              entitled_leave_days |-> result.entitled_leave_days,
              capped |-> result.capped,
              message |-> IF exceeds_cap(new_total)
                          THEN CapWarning ELSE result.message]

\* mutant: a successful preview files the request it previews
preview_overtime_request_saving(current_user, date, hours) ==
    /\ UNCHANGED <<txn, calc>>
    /\ resp' = Response("preview", preview_response(current_user, date, hours).code)
    /\ IF preview_response(current_user, date, hours).code = 200 /\ nextId <= MaxRequests
       THEN /\ requests' = requests @@ (nextId :>
                   [user_id |-> current_user, date |-> date, hours |-> hours,
                    reason |-> None, status |-> "pending",
                    approver_comments |-> None, attachment_id |-> 0])
            /\ nextId' = nextId + 1
            /\ UNCHANGED <<users, ledger, attachments>>
       ELSE DbUnchanged

preview_overtime_request(current_user, date, hours) ==
    /\ UNCHANGED <<txn, calc>>
    /\ DbUnchanged
    /\ resp' = Response("preview", preview_response(current_user, date, hours).code)

\* The message of the OvertimeRequestResponse a successful create returns.
create_message(current_user, date, hours) ==
    LET total  == total_ot_leave(ledger, current_user, date.year)
        result == calculate_overtime_entitlement(
                      date, hours, users[current_user].grade, 0)
        new_total == total + result.entitled_leave_days
    IN  IF exceeds_cap(new_total) THEN CapWarning ELSE result.message

\* mutant: the attachment is stored and committed before the request is validated
create_overtime_request_attaching_first(current_user, date, hours, reason, attachment) ==
    /\ nextId <= MaxRequests
    /\ UNCHANGED <<txn, calc>>
    /\ attachments' = IF attachment THEN attachments + 1 ELSE attachments
    /\ UNCHANGED <<users, ledger>>
    /\ IF DateGT(date, Today) \/ existing(current_user, date) # {}
       THEN UNCHANGED <<requests, nextId>> /\ resp' = Response("create", 400)
       ELSE /\ requests' = requests @@ (nextId :>
                   [user_id |-> current_user, date |-> date, hours |-> hours,
                    reason |-> reason, status |-> "pending",
                    approver_comments |-> None,
                    attachment_id |-> IF attachment THEN attachments + 1 ELSE 0])
            /\ nextId' = nextId + 1
            /\ resp' = Response("create", 200)

create_overtime_request(current_user, date, hours, reason, attachment) ==
    /\ nextId <= MaxRequests
    /\ UNCHANGED <<txn, calc>>
    /\ IF DateGT(date, Today)
       THEN DbUnchanged /\ resp' = Response("create", 400)
       ELSE IF existing(current_user, date) # {}
       THEN DbUnchanged /\ resp' = Response("create", 400)
       ELSE LET attachment_id == IF attachment THEN attachments + 1 ELSE 0
            IN  /\ attachments' = IF attachment THEN attachments + 1 ELSE attachments
                /\ requests' = requests @@ (nextId :>
                       [user_id |-> current_user, date |-> date, hours |-> hours,
                        reason |-> reason, status |-> "pending",
                        approver_comments |-> None,
                        attachment_id |-> attachment_id])
                /\ nextId' = nextId + 1
                /\ UNCHANGED <<users, ledger>>
                /\ resp' = Response("create", 200)

update_overtime_request(current_user, request_id, date, hours, reason) ==
    /\ UNCHANGED <<txn, calc>>
    /\ IF ~(request_id \in DOMAIN requests
            /\ requests[request_id].user_id = current_user)
       THEN DbUnchanged /\ resp' = Response("update", 404)
       ELSE IF not_pending(requests[request_id])
       THEN DbUnchanged /\ resp' = Response("update", 400)
       ELSE /\ requests' = [requests EXCEPT ![request_id].date = date,
                                            ![request_id].hours = hours,
                                            ![request_id].reason = reason]
            /\ UNCHANGED <<users, nextId, ledger, attachments>>
            /\ resp' = Response("update", 200)

patch_overtime_request(current_user, request_id, request_update) ==
    /\ UNCHANGED <<txn, calc>>
    /\ IF ~(request_id \in DOMAIN requests
            /\ requests[request_id].user_id = current_user)
       THEN DbUnchanged /\ resp' = Response("patch", 404)
       ELSE IF not_pending(requests[request_id])
       THEN DbUnchanged /\ resp' = Response("patch", 400)
       ELSE /\ requests' = [requests EXCEPT
                  ![request_id].date   = IF "date" \in DOMAIN request_update
                                         THEN request_update.date ELSE @,
                  ![request_id].hours  = IF "hours" \in DOMAIN request_update
                                         THEN request_update.hours ELSE @,
                  ![request_id].reason = IF "reason" \in DOMAIN request_update
                                         THEN request_update.reason ELSE @]
            /\ UNCHANGED <<users, nextId, ledger, attachments>>
            /\ resp' = Response("patch", 200)

delete_overtime_request(current_user, request_id) ==
    /\ UNCHANGED <<txn, calc>>
    /\ IF ~(request_id \in DOMAIN requests
            /\ requests[request_id].user_id = current_user)
       THEN DbUnchanged /\ resp' = Response("delete", 404)
       ELSE IF not_pending(requests[request_id])
       THEN DbUnchanged /\ resp' = Response("delete", 400)
       ELSE /\ requests' = [i \in DOMAIN requests \ {request_id} |-> requests[i]]
            /\ UNCHANGED <<users, nextId, ledger, attachments>>
            /\ resp' = Response("delete", 200)

\* mutant: any manager above the owner may decide, not only the direct one
not_direct_manager_any_superior(db_request, current_user) ==
    LET direct == users[db_request.user_id].manager_id
    IN  /\ direct # current_user
        /\ ~ (direct \in UserIds /\ users[direct].manager_id = current_user)

\* if db_request.user.manager_id != current_user.id
not_direct_manager(db_request, current_user) ==
    users[db_request.user_id].manager_id # current_user

\* mutant: only a negative entitlement is refused
no_entitlement_negative_only(request_leave_days) == request_leave_days < 0

\* mutant: the entitlement of the request is not looked at before granting
no_entitlement_unchecked(request_leave_days) == FALSE

\* if request_leave_days <= 0
no_entitlement(request_leave_days) == request_leave_days <= 0

\* mutant: the prior total is not subtracted from the cap
grantable_days_whole_cap(total_leave_days) == Fixed(MaxLeaveDays)

\* mutant: the remainder is cut down to whole days
grantable_days_floored(total_leave_days) ==
    max(0, Fixed((Fixed(MaxLeaveDays) - total_leave_days) \div Scale))

\* max(0, 9 - total_leave_days)
grantable_days(total_leave_days) == max(0, Fixed(MaxLeaveDays) - total_leave_days)

\* mutant: a remainder of zero days is granted too
has_grantable_days_or_none(days) == days >= 0

\* if grantable_days > 0
has_grantable_days(days) == days > 0

\* mutant: the days are recorded as hours, not converted
grantable_hours_unconverted(days) == days

\* grantable_days * 8
grantable_hours(days) == days * 8

OvertimeLeave(user_id, overtime_request_id, year, ot_hours, leave_days) ==
    [user_id |-> user_id, overtime_request_id |-> overtime_request_id,
     year |-> year, ot_hours |-> ot_hours, leave_days |-> leave_days]

\* mutant: at the cap only the manager's own comment is stored
cap_rejection_note_dropped(approver_comments) == approver_comments

\* (approver_comments or "") + "\nAuto-rejected: Approving this request would ..."
cap_rejection_note(approver_comments) ==
    OrEmpty(approver_comments)
        \o <<"Auto-rejected: Approving this request would exceed the maximum of 9 OT leave days per year.">>

\* Lines 330-405 of approve_overtime_request: what the session holds when it
\* commits, given the request row it loaded and the total it read.
approve_outcome(request_id, db_request, total_leave_days, approver_comments) ==
    LET year   == db_request.date.year
        result == calculate_overtime_entitlement(
                      db_request.date, db_request.hours,
                      users[db_request.user_id].grade, 0)
        request_leave_days == result.entitled_leave_days
        request_hours      == result.entitled_hours
        new_total          == total_leave_days + request_leave_days
        days               == grantable_days(total_leave_days)
        hours              == grantable_hours(days)
    IN  IF no_entitlement(request_leave_days)
        THEN [status |-> "rejected", leave |-> << >>,
              approver_comments |-> OrEmpty(approver_comments)
                  \o <<"Auto-rejected: No entitled leave days for this request.">>]
        ELSE IF new_total > Fixed(MaxLeaveDays)
        THEN IF has_grantable_days(days)
             THEN [status |-> "approved",
                   leave |-> <<OvertimeLeave(db_request.user_id, request_id,
                                             year, hours, days)>>,
                   approver_comments |-> OrEmpty(approver_comments)
                       \o <<"Partial approval", ToString(days), ToString(hours),
                            "not converted", ToString(request_leave_days - days),
                            ToString(request_hours - hours)>>]
             ELSE [status |-> "rejected", leave |-> << >>,
                   approver_comments |-> cap_rejection_note(approver_comments)]
        ELSE [status |-> "approved",
              leave |-> <<OvertimeLeave(db_request.user_id, request_id, year,
                                        request_hours, request_leave_days)>>,
              approver_comments |-> OrEmpty(approver_comments) \o result.message]

\* mutant: the ledger row is never added to the session
Commit_without_row(request_id, out) ==
    /\ ledger' = ledger
    /\ requests' = [requests EXCEPT
           ![request_id].status = out.status,
           ![request_id].approver_comments = out.approver_comments]
    /\ UNCHANGED <<users, nextId, attachments>>

\* mutant: the new row replaces the employee's earlier rows of that year
Commit_replacing(request_id, out) ==
    /\ ledger' = SelectSeq(ledger, LAMBDA r :
                     \A k \in 1 .. Len(out.leave) :
                        r.user_id # out.leave[k].user_id \/ r.year # out.leave[k].year)
                  \o out.leave
    /\ requests' = [requests EXCEPT
           ![request_id].status = out.status,
           ![request_id].approver_comments = out.approver_comments]
    /\ UNCHANGED <<users, nextId, attachments>>

\* db.add(overtime_leave); db_request.status = ...; db.commit()
Commit(request_id, out) ==
    /\ ledger' = ledger \o out.leave
    /\ requests' = [requests EXCEPT
           ![request_id].status = out.status,
           ![request_id].approver_comments = out.approver_comments]
    /\ UNCHANGED <<users, nextId, attachments>>

\* mutant: the comment is completed the way approve completes it
reject_outcome_annotated(approver_comments) ==
    [status |-> "rejected", leave |-> << >>,
     approver_comments |-> OrEmpty(approver_comments) \o <<"Rejected.">>]

\* db_request.status = "rejected"; db_request.approver_comments = approver_comments
reject_outcome(approver_comments) ==
    [status |-> "rejected", leave |-> << >>, approver_comments |-> approver_comments]

approve_overtime_request(current_user, request_id, approver_comments) ==
    /\ UNCHANGED <<txn, calc>>
    /\ IF request_id \notin DOMAIN requests
       THEN DbUnchanged /\ resp' = Response("approve", 404)
       ELSE IF not_direct_manager(requests[request_id], current_user)
       THEN DbUnchanged /\ resp' = Response("approve", 403)
       ELSE IF not_pending(requests[request_id])
       THEN DbUnchanged /\ resp' = Response("approve", 400)
       ELSE LET db_request == requests[request_id]
                total_leave_days ==
                    total_ot_leave(ledger, db_request.user_id, db_request.date.year)
            IN  /\ Commit(request_id,
                          approve_outcome(request_id, db_request,
                                          total_leave_days, approver_comments))
                /\ resp' = Response("approve", 200)

reject_overtime_request(current_user, request_id, approver_comments) ==
    /\ UNCHANGED <<txn, calc>>
    /\ IF request_id \notin DOMAIN requests
       THEN DbUnchanged /\ resp' = Response("reject", 404)
       ELSE IF not_direct_manager(requests[request_id], current_user)
       THEN DbUnchanged /\ resp' = Response("reject", 403)
       ELSE IF not_pending(requests[request_id])
       THEN DbUnchanged /\ resp' = Response("reject", 400)
       ELSE /\ Commit(request_id, reject_outcome(approver_comments))
            /\ resp' = Response("reject", 200)

----------------------------------------------------------------------------
(* The sequential system: one handler call at a time *)

\* OvertimeRequestPartialUpdate: any subset of the fields; the model submits one
\* field at a time, or none.
PatchSet ==
    {<< >>} \cup {[date |-> x] : x \in DateSet}
            \cup {[hours |-> Fixed(x)] : x \in HoursSet}
            \cup {[reason |-> x] : x \in ReasonSet \ {None}}

Preview == \E u \in UserIds, d \in DateSet, h \in HoursSet :
               preview_overtime_request(u, d, Fixed(h))

Create  == \E u \in Employees, d \in DateSet, h \in HoursSet, r \in ReasonSet,
              a \in AttachmentSet :
               create_overtime_request(u, d, Fixed(h), r, a)

Update  == \E u \in UserIds, i \in RequestIds, d \in DateSet, h \in HoursSet,
              r \in ReasonSet :
               update_overtime_request(u, i, d, Fixed(h), r)

Patch   == \E u \in UserIds, i \in RequestIds, upd \in PatchSet :
               patch_overtime_request(u, i, upd)

Delete  == \E u \in UserIds, i \in RequestIds : delete_overtime_request(u, i)

Approve == \E u \in UserIds, i \in RequestIds, c \in CommentSet :
               approve_overtime_request(u, i, c)

Reject  == \E u \in UserIds, i \in RequestIds, c \in CommentSet :
               reject_overtime_request(u, i, c)

Next == Preview \/ Create \/ Update \/ Patch \/ Delete \/ Approve \/ Reject

Spec == Init /\ [][Next]_vars

----------------------------------------------------------------------------
(* Concurrent approve / reject calls.  Each call runs in its own database  *)
(* session (get_db); the engine is PostgreSQL at its default isolation     *)
(* level, so every statement reads the rows committed so far and the       *)
(* handlers take no lock.  A call is three steps: the SELECT of the        *)
(* request row with the checks on it, the SELECT of the ledger sum, and    *)
(* the flush of the INSERT / UPDATE with the COMMIT.                       *)

Idle == [pc |-> "idle"]

ApproveBegin(p, current_user, request_id, approver_comments) ==
    /\ txn[p].pc = "idle"
    /\ UNCHANGED calc
    /\ DbUnchanged
    /\ IF request_id \notin DOMAIN requests
       THEN UNCHANGED txn /\ resp' = Response("approve", 404)
       ELSE IF not_direct_manager(requests[request_id], current_user)
       THEN UNCHANGED txn /\ resp' = Response("approve", 403)
       ELSE IF not_pending(requests[request_id])
       THEN UNCHANGED txn /\ resp' = Response("approve", 400)
       ELSE /\ txn' = [txn EXCEPT ![p] =
                          [pc |-> "approve_loaded", request_id |-> request_id,
                           db_request |-> requests[request_id],
                           approver_comments |-> approver_comments]]
            /\ UNCHANGED resp

ApproveSum(p) ==
    /\ txn[p].pc = "approve_loaded"
    /\ UNCHANGED calc
    /\ DbUnchanged
    /\ UNCHANGED resp
    /\ txn' = [txn EXCEPT ![p] =
                  [pc |-> "approve_summed", request_id |-> txn[p].request_id,
                   db_request |-> txn[p].db_request,
                   approver_comments |-> txn[p].approver_comments,
                   total_leave_days |->
                       total_ot_leave(ledger, txn[p].db_request.user_id,
                                      txn[p].db_request.date.year)]]

ApproveCommit(p) ==
    /\ txn[p].pc = "approve_summed"
    /\ UNCHANGED calc
    /\ Commit(txn[p].request_id,
              approve_outcome(txn[p].request_id, txn[p].db_request,
                              txn[p].total_leave_days, txn[p].approver_comments))
    /\ resp' = Response("approve", 200)
    /\ txn' = [txn EXCEPT ![p] = Idle]

RejectBegin(p, current_user, request_id, approver_comments) ==
    /\ txn[p].pc = "idle"
    /\ UNCHANGED calc
    /\ DbUnchanged
    /\ IF request_id \notin DOMAIN requests
       THEN UNCHANGED txn /\ resp' = Response("reject", 404)
       ELSE IF not_direct_manager(requests[request_id], current_user)
       THEN UNCHANGED txn /\ resp' = Response("reject", 403)
       ELSE IF not_pending(requests[request_id])
       THEN UNCHANGED txn /\ resp' = Response("reject", 400)
       ELSE /\ txn' = [txn EXCEPT ![p] =
                          [pc |-> "reject_loaded", request_id |-> request_id,
                           approver_comments |-> approver_comments]]
            /\ UNCHANGED resp

RejectCommit(p) ==
    /\ txn[p].pc = "reject_loaded"
    /\ UNCHANGED calc
    /\ Commit(txn[p].request_id, reject_outcome(txn[p].approver_comments))
    /\ resp' = Response("reject", 200)
    /\ txn' = [txn EXCEPT ![p] = Idle]

ConcApprove == \E p \in Procs :
    \/ \E u \in UserIds, i \in RequestIds, c \in CommentSet : ApproveBegin(p, u, i, c)
    \/ ApproveSum(p)
    \/ ApproveCommit(p)

ConcReject == \E p \in Procs :
    \/ \E u \in UserIds, i \in RequestIds, c \in CommentSet : RejectBegin(p, u, i, c)
    \/ RejectCommit(p)

ConcNext == Create \/ ConcApprove \/ ConcReject

ConcSpec == Init /\ [][ConcNext]_vars

----------------------------------------------------------------------------
(* db_reset_for_demo.py: the maintenance script.  DELETE leaves the serials *)
(* where they are.                                                         *)

db_reset_for_demo ==
    /\ ledger' = << >>
    /\ requests' = << >>
    /\ resp' = Response("db_reset_for_demo", 0)
    /\ UNCHANGED <<users, nextId, attachments, txn, calc>>

ResetSpec == Init /\ [][Next \/ db_reset_for_demo]_vars

----------------------------------------------------------------------------
(* The decision handlers with the inputs the sequential system above leaves *)
(* out: an employee whose grade is outside 1..5, negative hours            *)
(* (schemas.OvertimeRequestBase.hours is an unconstrained float) and an    *)
(* absent approver comment.                                                *)

WideUserTable == [UserTable EXCEPT ![3].grade = "9"]

WideHoursSet == {-4, 0, 4, 36}

WideCommentSet == {None, <<"ok">>}

WideInit ==
    /\ users = WideUserTable
    /\ requests = << >>
    /\ nextId = 1
    /\ ledger = << >>
    /\ attachments = 0
    /\ resp = Response("none", 0)
    /\ txn = [p \in Procs |-> [pc |-> "idle"]]
    /\ calc = NoCall

WideCreate  == \E u \in Employees, d \in DateSet, h \in WideHoursSet,
                  r \in ReasonSet, a \in AttachmentSet :
                   create_overtime_request(u, d, Fixed(h), r, a)

WideApprove == \E u \in UserIds, i \in RequestIds, c \in WideCommentSet :
                   approve_overtime_request(u, i, c)

WideReject  == \E u \in UserIds, i \in RequestIds, c \in WideCommentSet :
                   reject_overtime_request(u, i, c)

WideNext == WideCreate \/ WideApprove \/ WideReject

WideSpec == WideInit /\ [][WideNext]_vars

----------------------------------------------------------------------------
(* The intake handlers, preview and create, with and without an attachment *)

IntakeCreate == \E u \in Employees, d \in DateSet, h \in HoursSet,
                   r \in ReasonSet, a \in BOOLEAN :
                    create_overtime_request(u, d, Fixed(h), r, a)

IntakeNext == Preview \/ IntakeCreate

IntakeSpec == Init /\ [][IntakeNext]_vars

----------------------------------------------------------------------------
(* The seven handlers over a reduced set of dates and hours, every user     *)
(* calling every handler on every request id.                              *)

CoreDateSet == {Date(2025, 6, 2), Date(2025, 6, 7)}

CoreHoursSet == {0, 36}

CorePatchSet ==
    {<< >>} \cup {[date |-> x] : x \in CoreDateSet}
            \cup {[hours |-> Fixed(x)] : x \in CoreHoursSet}
            \cup {[reason |-> x] : x \in ReasonSet \ {None}}

CorePreview == \E u \in UserIds, d \in CoreDateSet, h \in CoreHoursSet :
                   preview_overtime_request(u, d, Fixed(h))

CoreCreate  == \E u \in Employees, d \in CoreDateSet, h \in CoreHoursSet,
                  r \in ReasonSet, a \in AttachmentSet :
                   create_overtime_request(u, d, Fixed(h), r, a)

CoreUpdate  == \E u \in UserIds, i \in RequestIds, d \in CoreDateSet,
                  h \in CoreHoursSet, r \in ReasonSet :
                   update_overtime_request(u, i, d, Fixed(h), r)

CorePatch   == \E u \in UserIds, i \in RequestIds, upd \in CorePatchSet :
                   patch_overtime_request(u, i, upd)

CoreNext == CorePreview \/ CoreCreate \/ CoreUpdate \/ CorePatch \/ Delete
               \/ Approve \/ Reject

CoreSpec == Init /\ [][CoreNext]_vars

----------------------------------------------------------------------------
(* Preview, create and approve with requests large enough to be flagged by *)
(* the calculator on their own (40 hours on a Saturday are 80 entitled     *)
(* hours for grades 1 to 3).                                               *)

FlagHoursSet == {4, 36, 40}

FlagPreview == \E u \in UserIds, d \in CoreDateSet, h \in FlagHoursSet :
                   preview_overtime_request(u, d, Fixed(h))

FlagCreate  == \E u \in Employees, d \in CoreDateSet, h \in FlagHoursSet,
                  r \in ReasonSet, a \in AttachmentSet :
                   create_overtime_request(u, d, Fixed(h), r, a)

FlagNext == FlagPreview \/ FlagCreate \/ Approve

FlagSpec == Init /\ [][FlagNext]_vars

----------------------------------------------------------------------------
(* The calculator called directly: calculate_overtime_entitlement is a pure *)
(* function of (date, hours, grade, year_total_hours); its user argument   *)
(* is never read.                                                          *)

CalcDateSet ==
    { Date(2024, 2, 29),     \* a Thursday
      Date(2025, 6, 2),      \* a Monday
      Date(2025, 6, 6),      \* a Friday
      Date(2025, 6, 7),      \* a Saturday
      Date(2025, 6, 8) }     \* a Sunday

CalcHoursSet == {-4, 0, 1, 4, 5, 6, 8, 40}

CalcGradeSet == {"1", "2", "3", "4", "5", "0", "6", "9", "-1", "10", " 3", "04"}

YearTotalHoursSet == {0, 68, 72, 74, 78, 80}

CalcInit ==
    /\ users = UserTable
    /\ requests = << >>
    /\ nextId = 1
    /\ ledger = << >>
    /\ attachments = 0
    /\ resp = Response("none", 0)
    /\ txn = [p \in Procs |-> [pc |-> "idle"]]
    /\ \E d \in CalcDateSet, h \in CalcHoursSet, g \in CalcGradeSet,
          y \in YearTotalHoursSet :
          calc = [called |-> FALSE, date |-> d, hours |-> Fixed(h), grade |-> g,
                  year_total_hours |-> Fixed(y)]

Calculate ==
    /\ ~ calc.called
    /\ calc' = [called |-> TRUE, date |-> calc.date, hours |-> calc.hours,
                grade |-> calc.grade, year_total_hours |-> calc.year_total_hours,
                result |-> calculate_overtime_entitlement(
                               calc.date, calc.hours, calc.grade,
                               calc.year_total_hours)]
    /\ UNCHANGED <<users, requests, nextId, ledger, attachments, resp, txn>>

CalcNext == Calculate

CalcSpec == CalcInit /\ [][CalcNext]_vars

----------------------------------------------------------------------------
(* api_utils/leave.py.  Here a str is the sequence of its characters, so    *)
(* that lower() and strip() are computed character by character.           *)

UpperCase ==
    <<"A", "B", "C", "D", "E", "F", "G", "H", "I", "J", "K", "L", "M",
      "N", "O", "P", "Q", "R", "S", "T", "U", "V", "W", "X", "Y", "Z">>

LowerCase ==
    <<"a", "b", "c", "d", "e", "f", "g", "h", "i", "j", "k", "l", "m",
      "n", "o", "p", "q", "r", "s", "t", "u", "v", "w", "x", "y", "z">>

\* str.lower() on one character
lower_char(ch) ==
    IF \E k \in 1 .. Len(UpperCase) : UpperCase[k] = ch
    THEN LowerCase[CHOOSE k \in 1 .. Len(UpperCase) : UpperCase[k] = ch]
    ELSE ch

lower(s) == [k \in 1 .. Len(s) |-> lower_char(s[k])]

Whitespace == {" ", "\t", "\n", "\r"}

RECURSIVE lstrip(_)
lstrip(s) ==
    IF s # << >> /\ Head(s) \in Whitespace THEN lstrip(Tail(s)) ELSE s

RECURSIVE rstrip(_)
rstrip(s) ==
    IF s # << >> /\ s[Len(s)] \in Whitespace THEN rstrip(SubSeq(s, 1, Len(s) - 1)) ELSE s

\* mutant: only leading whitespace is removed
strip_leading_only(s) == lstrip(s)

strip(s) == rstrip(lstrip(s))

s_maternity == <<"m", "a", "t", "e", "r", "n", "i", "t", "y">>

s_Maternity == <<"M", "a", "t", "e", "r", "n", "i", "t", "y">>

s_MATERNITY == <<"M", "A", "T", "E", "R", "N", "I", "T", "Y">>

s_paternity == <<"p", "a", "t", "e", "r", "n", "i", "t", "y">>

s_Paternity == <<"P", "a", "t", "e", "r", "n", "i", "t", "y">>

s_hajj == <<"h", "a", "j", "j">>

s_Hajj == <<"H", "a", "j", "j">>

s_annual == <<"a", "n", "n", "u", "a", "l">>

s_Sick == <<"S", "i", "c", "k">>

s_maternity_blank == <<" ", "m", "a", "t", "e", "r", "n", "i", "t", "y">>

s_female == <<"f", "e", "m", "a", "l", "e">>

s_Female == <<"F", "e", "m", "a", "l", "e">>

s_FEMALE_blanks == <<" ", "F", "E", "M", "A", "L", "E", " ">>

s_male == <<"m", "a", "l", "e">>

s_Male_newline == <<"M", "a", "l", "e", "\n">>

s_other == <<"o", "t", "h", "e", "r">>

s_muslim == <<"m", "u", "s", "l", "i", "m">>

s_Muslim_blank == <<" ", "M", "u", "s", "l", "i", "m">>

s_MUSLIM_tab == <<"M", "U", "S", "L", "I", "M", "\t">>

s_christian == <<"c", "h", "r", "i", "s", "t", "i", "a", "n">>

s_Not_Specified == <<"N", "o", "t", " ", "S", "p", "e", "c", "i", "f", "i", "e", "d">>

\* if user.gender: false for None and for ""
truthy(s) == s # None /\ s # << >>

is_leave_type_eligible(user, leave_type) ==
    LET lt       == lower(leave_type)
        gender   == IF truthy(user.gender) THEN lower(strip(user.gender)) ELSE << >>
        religion == IF truthy(user.religion) THEN lower(strip(user.religion)) ELSE << >>
    IN  IF lt = s_maternity THEN gender = s_female
        ELSE IF lt = s_paternity THEN gender = s_male
        ELSE IF lt = s_hajj THEN religion = s_muslim
        ELSE TRUE

LeaveTypeSet ==
    {s_maternity, s_Maternity, s_MATERNITY, s_paternity, s_Paternity, s_hajj, s_Hajj,
     s_annual, s_Sick, s_maternity_blank, << >>}

GenderSet ==
    {None, << >>, s_female, s_Female, s_FEMALE_blanks, s_male, s_Male_newline, s_other}

ReligionSet ==
    {None, s_muslim, s_Muslim_blank, s_MUSLIM_tab, s_christian, s_Not_Specified}

LeaveInit ==
    /\ users = UserTable
    /\ requests = << >>
    /\ nextId = 1
    /\ ledger = << >>
    /\ attachments = 0
    /\ resp = Response("none", 0)
    /\ txn = [p \in Procs |-> [pc |-> "idle"]]
    /\ \E t \in LeaveTypeSet, g \in GenderSet, r \in ReligionSet :
          calc = [called |-> FALSE, leave_type |-> t,
                  user |-> [gender |-> g, religion |-> r]]

CheckEligibility ==
    /\ ~ calc.called
    /\ calc' = [called |-> TRUE, leave_type |-> calc.leave_type, user |-> calc.user,
                result |-> is_leave_type_eligible(calc.user, calc.leave_type)]
    /\ UNCHANGED <<users, requests, nextId, ledger, attachments, resp, txn>>

LeaveNext == CheckEligibility

LeaveSpec == LeaveInit /\ [][LeaveNext]_vars

----------------------------------------------------------------------------
(* Vocabulary of the properties *)

Years == {d.year : d \in DateSet}

Cap == Fixed(MaxLeaveDays)

\* the sum of leave_days over the first n ledger rows of one employee and year
RECURSIVE YearTotal(_, _, _, _)
YearTotal(rows, n, u, y) ==
    IF n = 0 THEN 0
    ELSE YearTotal(rows, n - 1, u, y)
         + (IF rows[n].user_id = u /\ rows[n].year = y THEN rows[n].leave_days ELSE 0)

LedgerTotal(u, y) == YearTotal(ledger, Len(ledger), u, y)

RowsOf(i) == {k \in 1 .. Len(ledger) : ledger[k].overtime_request_id = i}

Entitlement(r) ==
    calculate_overtime_entitlement(r.date, r.hours, users[r.user_id].grade, 0)

Decided(i) == i \in DOMAIN requests /\ requests[i].status \in {"approved", "rejected"}

Pending(i) == i \in DOMAIN requests /\ requests[i].status = "pending"

IsManagerOf(u, i) == users[requests[i].user_id].manager_id = u

HandlerOps == {"preview", "create", "update", "patch", "delete", "approve", "reject"}

\* this step is the call approve(u, i, c) for some comment c
ApproveStep(u, i) ==
    /\ resp'.op = "approve"
    /\ \E c \in CommentSet : approve_overtime_request(u, i, c)

RejectStep(u, i) ==
    /\ resp'.op = "reject"
    /\ \E c \in CommentSet : reject_overtime_request(u, i, c)

\* the row approve appended in this step, if it appended exactly one
Appended(row) == ledger' = Append(ledger, row)

----------------------------------------------------------------------------
(* C1: Yearly cap, sequential.  In every state reached by handler calls     *)
(* executed one at a time, for every employee and every calendar year the  *)
(* leave_days of that employee's ledger rows of that year sum to at most 9.*)
C1_YearlyCap ==
    \A u \in UserIds, y \in Years : LedgerTotal(u, y) <= Cap

\* two grants of one employee and year have brought the total exactly to the cap
C1_Witness ==
    \E u \in UserIds, y \in Years :
        /\ LedgerTotal(u, y) = Cap
        /\ Cardinality({k \in 1 .. Len(ledger) :
                            ledger[k].user_id = u /\ ledger[k].year = y}) = 2

(* C2: Cap under concurrency.  When approve calls for two different pending *)
(* requests of one employee and year are interleaved, each approval's read *)
(* of the prior total, ledger insert and status change act as one atomic   *)
(* unit: as long as no request has been granted twice, no employee's       *)
(* ledger rows of one year sum to more than 9 days.                        *)
C2_CapUnderInterleaving ==
    (\A i \in RequestIds : Cardinality(RowsOf(i)) <= 1)
        => ~ \E u \in UserIds, y \in Years : LedgerTotal(u, y) > Cap

(* C3: Status state machine.  A request is created pending; its status only *)
(* ever changes from pending to approved or from pending to rejected; an   *)
(* approved or rejected request keeps its status, and stays, for ever; an  *)
(* id is never given to a second request.                                  *)
C3_StatusMachine ==
    [][\A i \in RequestIds :
          /\ (i \notin DOMAIN requests /\ i \in DOMAIN requests')
                => (requests'[i].status = "pending" /\ i >= nextId)
          /\ Decided(i)
                => (i \in DOMAIN requests' /\ requests'[i].status = requests[i].status)
          /\ (Pending(i) /\ i \in DOMAIN requests')
                => requests'[i].status \in {"pending", "approved", "rejected"}]_vars

\* a decided request has just been the target of a refused reject, and both
\* final statuses are present
C3_Witness ==
    /\ resp = Response("reject", 400)
    /\ \E i \in DOMAIN requests : requests[i].status = "approved"
    /\ \E i \in DOMAIN requests : requests[i].status = "rejected"

(* C4: Re-invocation fails without effect.  approve or reject called on a   *)
(* request that is already approved or rejected returns an error and       *)
(* leaves every request (status, approver_comments and all) and the whole  *)
(* ledger unchanged; the error is HTTP 400 for the caller who may decide   *)
(* the request, the owner's manager.                                       *)
C4_ReinvocationFails ==
    [][\A u \in UserIds, i \in RequestIds :
          ((ApproveStep(u, i) \/ RejectStep(u, i)) /\ Decided(i))
             => /\ requests' = requests
                /\ ledger' = ledger
                /\ resp'.code \in {400, 403}
                /\ IsManagerOf(u, i) => resp'.code = 400]_vars

\* an approve call has just been refused with 400; the approved request has its
\* single ledger row
C4_Witness ==
    /\ resp = Response("approve", 400)
    /\ \A i \in DOMAIN requests : requests[i].status = "approved"
    /\ requests # << >>
    /\ Len(ledger) = Cardinality(DOMAIN requests)

(* C5: Ledger / request correspondence.  Every request has at most one     *)
(* ledger row; a ledger row belongs to an existing request whose status is *)
(* approved; an approved request has exactly one row; pending and rejected *)
(* requests have none.                                                     *)
C5_LedgerMatchesRequests ==
    /\ \A k \in 1 .. Len(ledger) :
          /\ ledger[k].overtime_request_id \in DOMAIN requests
          /\ requests[ledger[k].overtime_request_id].status = "approved"
    /\ \A i \in DOMAIN requests :
          /\ Cardinality(RowsOf(i)) <= 1
          /\ requests[i].status = "approved" => Cardinality(RowsOf(i)) = 1
          /\ requests[i].status \in {"pending", "rejected"} => RowsOf(i) = {}

\* one request approved with its row, another one rejected by approve with none
C5_Witness ==
    /\ resp = Response("approve", 200)
    /\ \E i, j \in DOMAIN requests :
          /\ requests[i].status = "approved" /\ Cardinality(RowsOf(i)) = 1
          /\ requests[j].status = "rejected" /\ RowsOf(j) = {}

(* C6: Ledger row consistency.  Every ledger row, written by a full or by a *)
(* partial grant, has leave_days = ot_hours / 8 exactly.                   *)
C6_RowConsistent ==
    \A k \in 1 .. Len(ledger) : ledger[k].leave_days * 8 = ledger[k].ot_hours

\* the ledger holds a full grant followed by a partial grant
C6_Witness ==
    /\ Len(ledger) = 2
    /\ ledger[1].leave_days = Entitlement(requests[ledger[1].overtime_request_id]).entitled_leave_days
    /\ ledger[2].leave_days < Entitlement(requests[ledger[2].overtime_request_id]).entitled_leave_days

(* C7: The ledger is append-only.  No call of preview, create, update,      *)
(* patch, delete, approve or reject changes a field of a ledger row        *)
(* already written or removes a row: the ledger before the call is a       *)
(* prefix of the ledger after it.                                          *)
C7_LedgerAppendOnly ==
    [][resp'.op \in HandlerOps
          => /\ Len(ledger') >= Len(ledger)
             /\ \A k \in 1 .. Len(ledger) : ledger'[k] = ledger[k]]_vars

\* a second row has been appended behind a first one, and the owner has since
\* deleted nothing of it: the last call was a refused delete
C7_Witness ==
    /\ Len(ledger) = 2
    /\ resp = Response("delete", 400)

(* C8: Approve, full grant.  Approving (as the owner's manager) a pending   *)
(* request whose entitled leave days d are > 0, with the employee's prior  *)
(* ledger total p of the request's year such that p + d <= 9, appends      *)
(* exactly one ledger row, with leave_days = d and ot_hours = the          *)
(* request's entitled hours, and sets the status to approved.              *)
C8_FullGrant ==
    [][\A u \in UserIds, i \in RequestIds :
          (ApproveStep(u, i) /\ Pending(i) /\ IsManagerOf(u, i))
             => LET r == requests[i]
                    d == Entitlement(r).entitled_leave_days
                    h == Entitlement(r).entitled_hours
                    p == LedgerTotal(r.user_id, r.date.year)
                IN  (d > 0 /\ p + d <= Cap)
                       => /\ Appended([user_id |-> r.user_id,
                                       overtime_request_id |-> i,
                                       year |-> r.date.year,
                                       ot_hours |-> h, leave_days |-> d])
                          /\ requests'[i].status = "approved"]_vars

\* a full grant on top of an earlier grant of the same employee and year
C8_Witness ==
    /\ resp = Response("approve", 200)
    /\ Len(ledger) = 2
    /\ ledger[1].user_id = ledger[2].user_id
    /\ ledger[1].year = ledger[2].year
    /\ ledger[1].leave_days > 0
    /\ LET i == ledger[2].overtime_request_id
       IN  /\ requests[i].status = "approved"
           /\ ledger[2].leave_days = Entitlement(requests[i]).entitled_leave_days
           /\ ledger[2].ot_hours = Entitlement(requests[i]).entitled_hours

(* C9: Approve, partial grant.  Approving a pending request with entitled   *)
(* leave days d > 0 and prior total p of the employee and year with p < 9  *)
(* and p + d > 9 appends exactly one ledger row, with leave_days = 9 - p   *)
(* and ot_hours = (9 - p) * 8, sets the status to approved, and the        *)
(* employee's total of that year is exactly 9 afterwards.                  *)
C9_PartialGrant ==
    [][\A u \in UserIds, i \in RequestIds :
          (ApproveStep(u, i) /\ Pending(i) /\ IsManagerOf(u, i))
             => LET r == requests[i]
                    d == Entitlement(r).entitled_leave_days
                    p == LedgerTotal(r.user_id, r.date.year)
                IN  (d > 0 /\ p < Cap /\ p + d > Cap)
                       => /\ Appended([user_id |-> r.user_id,
                                       overtime_request_id |-> i,
                                       year |-> r.date.year,
                                       ot_hours |-> (Cap - p) * 8,
                                       leave_days |-> Cap - p])
                          /\ requests'[i].status = "approved"
                          /\ YearTotal(ledger', Len(ledger'), r.user_id, r.date.year)
                                = Cap]_vars

\* a partial grant on top of an earlier grant: the second row is smaller than
\* its request's entitlement and fills the year up to 9 days
C9_Witness ==
    /\ resp = Response("approve", 200)
    /\ Len(ledger) = 2
    /\ ledger[1].user_id = ledger[2].user_id
    /\ ledger[1].year = ledger[2].year
    /\ ledger[1].leave_days > 0
    /\ ledger[2].leave_days = Cap - ledger[1].leave_days
    /\ LET i == ledger[2].overtime_request_id
       IN  /\ requests[i].status = "approved"
           /\ ledger[2].leave_days < Entitlement(requests[i]).entitled_leave_days

(* C10: Approve at the cap.  If the employee's prior ledger total of the    *)
(* request's year is 9 or more, approving a pending request of that        *)
(* employee and year with entitled leave days > 0 sets its status to       *)
(* rejected and writes no ledger row.                                      *)
C10_AtCapRejected ==
    [][\A u \in UserIds, i \in RequestIds :
          (ApproveStep(u, i) /\ Pending(i) /\ IsManagerOf(u, i))
             => LET r == requests[i]
                    d == Entitlement(r).entitled_leave_days
                    p == LedgerTotal(r.user_id, r.date.year)
                IN  (d > 0 /\ p >= Cap)
                       => /\ ledger' = ledger
                          /\ requests'[i].status = "rejected"]_vars

\* approve has just rejected a request with a positive entitlement because the
\* employee's year already holds 9 days
C10_Witness ==
    /\ resp = Response("approve", 200)
    /\ \E i \in DOMAIN requests :
          /\ requests[i].status = "rejected"
          /\ Entitlement(requests[i]).entitled_leave_days > 0
          /\ LedgerTotal(requests[i].user_id, requests[i].date.year) = Cap
          /\ requests[i].approver_comments # <<"ok">>

----------------------------------------------------------------------------
(* Vocabulary of the properties about the wide inputs *)

\* this step is the call approve(u, i, c)
ApproveCall(u, i, c) ==
    /\ resp'.op = "approve"
    /\ approve_overtime_request(u, i, c)

\* this step is the call reject(u, i, c)
RejectCall(u, i, c) ==
    /\ resp'.op = "reject"
    /\ reject_overtime_request(u, i, c)

KnownGrades == 1 .. 5

\* the request was decided by approve: approve always completes the comment
DecidedByApprove(r) == r.status # "pending" /\ r.approver_comments \notin WideCommentSet

(* C11: Approve with no entitlement.  If the entitled leave days of a       *)
(* pending request are <= 0, which is the case whenever its hours are <= 0 *)
(* or the grade of its employee is an integer outside 1..5, approve (by    *)
(* the owner's manager) sets the status to rejected and leaves the ledger  *)
(* as it is, whatever the date, the hours and the prior total are.         *)
C11_NoEntitlementRejected ==
    [][\A u \in UserIds, i \in RequestIds, c \in WideCommentSet :
          (ApproveCall(u, i, c) /\ Pending(i) /\ IsManagerOf(u, i))
             => LET r == requests[i]
                    d == Entitlement(r).entitled_leave_days
                IN  /\ (r.hours <= 0 \/ int(users[r.user_id].grade) \notin KnownGrades)
                          => d <= 0
                    /\ d <= 0 => /\ ledger' = ledger
                                 /\ requests'[i].status = "rejected"]_vars

\* approve has rejected a request with positive hours of the employee of grade 9,
\* and a request with negative hours of an employee of a known grade
C11_Witness ==
    /\ resp = Response("approve", 200)
    /\ ledger = << >>
    /\ \E i, j \in DOMAIN requests :
          /\ DecidedByApprove(requests[i]) /\ requests[i].status = "rejected"
          /\ requests[i].hours > 0
          /\ int(users[requests[i].user_id].grade) \notin KnownGrades
          /\ DecidedByApprove(requests[j]) /\ requests[j].status = "rejected"
          /\ requests[j].hours < 0
          /\ int(users[requests[j].user_id].grade) \in KnownGrades

(* C12: Reject.  Rejecting (as the owner's manager) a pending request sets  *)
(* its status to rejected and stores the given comment, absent or not, and *)
(* leaves the whole ledger and every other request unchanged.              *)
C12_RejectFrame ==
    [][\A u \in UserIds, i \in RequestIds, c \in WideCommentSet :
          (RejectCall(u, i, c) /\ Pending(i) /\ IsManagerOf(u, i))
             => /\ requests'[i].status = "rejected"
                /\ requests'[i].approver_comments = c
                /\ ledger' = ledger
                /\ DOMAIN requests' = DOMAIN requests
                /\ \A j \in DOMAIN requests \ {i} : requests'[j] = requests[j]]_vars

\* a request has just been rejected without a comment while the ledger holds the
\* row of another, approved request
C12_Witness ==
    /\ resp = Response("reject", 200)
    /\ Len(ledger) = 1
    /\ \E i, j \in DOMAIN requests :
          /\ requests[i].status = "rejected" /\ requests[i].approver_comments = None
          /\ requests[j].status = "approved" /\ RowsOf(j) # {}

(* C13: Preview is read-only.  Whatever preview returns, an error or a      *)
(* result, the request store and the ledger (and the attachments and the   *)
(* users) are after the call exactly what they were before it.             *)
C13_PreviewReadOnly ==
    [][resp'.op = "preview"
          => /\ resp'.code \in {200, 400}
             /\ requests' = requests
             /\ ledger' = ledger
             /\ nextId' = nextId
             /\ attachments' = attachments
             /\ users' = users]_vars

\* a preview has just returned a result while a request is pending and the ledger
\* holds a row
C13_Witness ==
    /\ resp = Response("preview", 200)
    /\ Len(ledger) = 1
    /\ \E i \in DOMAIN requests : requests[i].status = "pending"

----------------------------------------------------------------------------
(* Vocabulary of the properties about the intake *)

\* the employee already has a request for that date
HasRequestOn(u, d) ==
    \E i \in DOMAIN requests : requests[i].user_id = u /\ requests[i].date = d

\* the date is later than the current date
InFuture(d) == toordinal(d) > toordinal(Today)

(* C14: Precondition violations on preview and create.  When the date is    *)
(* later than the current date, or the calling employee already has a      *)
(* request for that date, preview and create both return an error (HTTP    *)
(* 400), and create stores no request, no attachment and no ledger row:    *)
(* the database is exactly what it was.                                    *)
C14_PreconditionViolations ==
    [][\A u \in UserIds, d \in DateSet :
          (InFuture(d) \/ HasRequestOn(u, d))
             => /\ \A h \in HoursSet :
                      (resp'.op = "preview" /\ preview_overtime_request(u, d, Fixed(h)))
                         => /\ resp'.code = 400
                            /\ UNCHANGED <<requests, nextId, attachments, ledger, users>>
                /\ \A h \in HoursSet, r \in ReasonSet, a \in BOOLEAN :
                      (resp'.op = "create" /\ create_overtime_request(u, d, Fixed(h), r, a))
                         => /\ resp'.code = 400
                            /\ UNCHANGED <<requests, nextId, attachments, ledger, users>>]_vars

\* a create has just been refused; the one request filed earlier, with its
\* attachment, is all the database holds
C14_Witness ==
    /\ resp = Response("create", 400)
    /\ attachments = 1
    /\ DOMAIN requests = {1}
    /\ requests[1].attachment_id = 1
    /\ nextId = 2

(* C15: Preview cap warning.  A successful preview returns the cap-exceeded *)
(* warning if and only if the employee's ledger total of the date's year   *)
(* plus the entitled leave days of this request is > 9; with or without    *)
(* the warning, the entitled_hours and entitled_leave_days it returns are  *)
(* the calculator's figures for this request alone (year total 0).  For    *)
(* grade 2, a Saturday, 5 hours and no prior total these are 10.0 hours,   *)
(* 1.25 days, not capped.                                                  *)
C15_PreviewCapWarning ==
    /\ \A u \in UserIds, d \in DateSet, h \in HoursSet :
          LET pr == preview_response(u, d, Fixed(h))
              e  == calculate_overtime_entitlement(d, Fixed(h), users[u].grade, 0)
          IN  pr.code = 200
                 => /\ pr.message = CapWarning
                          <=> LedgerTotal(u, d.year) + e.entitled_leave_days > Cap
                    /\ pr.entitled_hours = e.entitled_hours
                    /\ pr.entitled_leave_days = e.entitled_leave_days
    /\ LET pr == preview_response(2, Date(2025, 6, 7), Fixed(5))
       IN  (pr.code = 200 /\ LedgerTotal(2, 2025) = 0)
              => /\ pr.entitled_hours = Fixed(10)
                 /\ pr.entitled_leave_days * 4 = Fixed(5)
                 /\ pr.capped = FALSE
                 /\ pr.message # CapWarning

\* a preview has just returned a result to an employee with a prior total strictly
\* between 0 and 9, for whom one preview carries the warning, another one does not
C15_Witness ==
    /\ resp = Response("preview", 200)
    /\ \E u \in UserIds, d1, d2 \in DateSet, h1, h2 \in HoursSet :
          /\ d1.year = d2.year
          /\ LedgerTotal(u, d1.year) > 0 /\ LedgerTotal(u, d1.year) < Cap
          /\ preview_response(u, d1, Fixed(h1)).code = 200
          /\ preview_response(u, d1, Fixed(h1)).message = CapWarning
          /\ preview_response(u, d2, Fixed(h2)).code = 200
          /\ preview_response(u, d2, Fixed(h2)).message # CapWarning
          /\ preview_response(u, d2, Fixed(h2)).entitled_leave_days > 0

----------------------------------------------------------------------------
(* Vocabulary of the properties about the calculator *)

\* the Saturdays and Sundays among the dates of the model, from the calendar
SaturdaysAndSundays ==
    {Date(2024, 12, 28), Date(2025, 6, 7), Date(2025, 6, 8), Date(2025, 6, 14)}

\* twice the multiplier the rules give for a date: 2 x 2.0 or 2 x 1.5
TwiceM(d) == IF d \in SaturdaysAndSundays THEN 4 ELSE 3

(* C16: Calculator, grades 1-3.  For every grade in {1, 2, 3} and every     *)
(* hours >= 0, entitled_hours = hours * m, with m = 2.0 on a Saturday or   *)
(* Sunday and m = 1.5 on any other day; no limit of hours applies to these *)
(* grades.                                                                 *)
C16_GradesOneToThree ==
    (calc.called /\ int(calc.grade) \in {1, 2, 3} /\ calc.hours >= 0)
       => calc.result.entitled_hours * 2 = calc.hours * TwiceM(calc.date)

\* grade 3, a Sunday, 40 hours: 80 entitled hours
C16_Witness ==
    /\ calc.called
    /\ calc.grade = "3" /\ calc.date = Date(2025, 6, 8) /\ calc.hours = Fixed(40)
    /\ calc.result.entitled_hours = Fixed(80)

(* C17: Calculator, grades 4-5.  For every grade in {4, 5} and every hours, *)
(* entitled_hours = min(hours, 4) * m with the same multiplier m, so the   *)
(* entitled hours of these grades never exceed 8.0, and 6.0 on a day that  *)
(* is not a Saturday or Sunday.                                            *)
C17_GradesFourAndFive ==
    (calc.called /\ int(calc.grade) \in {4, 5})
       => LET counted == IF calc.hours <= Fixed(4) THEN calc.hours ELSE Fixed(4)
          IN  /\ calc.result.entitled_hours * 2 = counted * TwiceM(calc.date)
              /\ calc.result.entitled_hours <= Fixed(8)
              /\ calc.date \notin SaturdaysAndSundays
                    => calc.result.entitled_hours <= Fixed(6)

\* grade 4, a Saturday, 8 hours: 8 entitled hours (4 x 2.0)
C17_Witness ==
    /\ calc.called
    /\ calc.grade = "4" /\ calc.date = Date(2025, 6, 7) /\ calc.hours = Fixed(8)
    /\ calc.result.entitled_hours = Fixed(8)

(* C18: Calculator leave days.  For all inputs, the returned               *)
(* entitled_leave_days is the returned entitled_hours / 8, not floored,    *)
(* and is the same whatever year_total_hours is.                           *)
C18_LeaveDaysAreHoursOverEight ==
    calc.called
       => /\ calc.result.entitled_leave_days * 8 = calc.result.entitled_hours
          /\ \A y \in YearTotalHoursSet :
                calculate_overtime_entitlement(
                    calc.date, calc.hours, calc.grade, Fixed(y)).entitled_leave_days
                   = calc.result.entitled_leave_days

\* 6 entitled hours on top of 74 hours of the year: 0.75 leave days
C18_Witness ==
    /\ calc.called
    /\ calc.year_total_hours = Fixed(74)
    /\ calc.result.entitled_hours = Fixed(6)
    /\ calc.result.entitled_leave_days * 4 = Fixed(3)

(* C19: Calculator, unknown grade.  For every integer grade outside 1..5    *)
(* the calculator returns a result, not an error, with entitled_hours = 0  *)
(* and entitled_leave_days = 0, for every date and hours.                  *)
C19_UnknownGrade ==
    (calc.called /\ int(calc.grade) \notin KnownGrades)
       => /\ DOMAIN calc.result = {"entitled_hours", "entitled_leave_days",
                                   "capped", "message"}
          /\ calc.result.entitled_hours = 0
          /\ calc.result.entitled_leave_days = 0

\* grade -1, a Sunday, 40 hours: nothing
C19_Witness ==
    /\ calc.called
    /\ calc.grade = "-1" /\ calc.date = Date(2025, 6, 8) /\ calc.hours = Fixed(40)
    /\ calc.result.entitled_hours = 0

(* C20: Calculator cap flag.  capped is true if and only if                *)
(* floor((year_total_hours + entitled_hours) / 8) > 9, that is, exactly    *)
(* when year_total_hours + entitled_hours >= 80.                           *)
C20_CappedFlag ==
    calc.called
       => LET total == calc.year_total_hours + calc.result.entitled_hours
              floor == CHOOSE n \in -20 .. 40 :
                          n * Fixed(8) <= total /\ total < (n + 1) * Fixed(8)
          IN  /\ calc.result.capped <=> floor > 9
              /\ calc.result.capped <=> total >= Fixed(80)

\* 74 hours of the year and 6 entitled hours make exactly 80: capped
C20_Witness ==
    /\ calc.called
    /\ calc.year_total_hours = Fixed(74)
    /\ calc.result.entitled_hours = Fixed(6)
    /\ calc.result.capped

(* C21: Request uniqueness.  In every state reachable through create,       *)
(* update, patch, delete, approve and reject there is at most one overtime *)
(* request per (employee, date).                                           *)
C21_RequestUniqueness ==
    \A i, j \in DOMAIN requests :
        (requests[i].user_id = requests[j].user_id /\ requests[i].date = requests[j].date)
           => i = j

----------------------------------------------------------------------------
(* Vocabulary of the properties about the owner's handlers *)

\* this step is a call of update, patch or delete by user u on request id i
UpdateCall(u, i) ==
    /\ resp'.op = "update"
    /\ \E d \in CoreDateSet, h \in CoreHoursSet, r \in ReasonSet :
          update_overtime_request(u, i, d, Fixed(h), r)

PatchCall(u, i) ==
    /\ resp'.op = "patch"
    /\ \E upd \in CorePatchSet : patch_overtime_request(u, i, upd)

DeleteCall(u, i) ==
    /\ resp'.op = "delete"
    /\ delete_overtime_request(u, i)

(* C22: Non-pending requests are frozen.  Once a request is approved or     *)
(* rejected, update, patch and delete on it fail with an error (400 for    *)
(* its owner) and leave its date, hours, reason, status and comments       *)
(* unchanged, and no call removes the request.                             *)
C22_DecidedFrozen ==
    [][\A i \in RequestIds :
          Decided(i)
             => /\ i \in DOMAIN requests'
                /\ \A u \in UserIds :
                      (UpdateCall(u, i) \/ PatchCall(u, i) \/ DeleteCall(u, i))
                         => /\ resp'.code \in {400, 404}
                            /\ requests[i].user_id = u => resp'.code = 400
                            /\ requests'[i] = requests[i]]_vars

\* the owner's patch of a decided request has just been refused; an approved and a
\* rejected request are both there, untouched
C22_Witness ==
    /\ resp = Response("patch", 400)
    /\ Len(ledger) = 1
    /\ \E i, j \in DOMAIN requests :
          /\ requests[i].status = "approved" /\ requests[i].hours = Fixed(36)
          /\ requests[j].status = "rejected"

\* the notes approve writes when the cap decides the outcome
CapNotes ==
    {"Partial approval",
     "Auto-rejected: Approving this request would exceed the maximum of 9 OT leave days per year."}

\* the stored comment is the given comment (or nothing) followed by a cap note
HasCapNote(stored, c) ==
    LET n == Len(OrEmpty(c))
    IN  /\ Len(stored) > n
        /\ SubSeq(stored, 1, n) = OrEmpty(c)
        /\ stored[n + 1] \in CapNotes

(* C23: Approve always resolves.  An approve call by the owner's manager on *)
(* a pending request never returns an error on account of the yearly cap   *)
(* and never leaves the request pending: it returns normally with the      *)
(* request approved or rejected, and whenever the cap caused a partial     *)
(* grant or an auto-rejection (entitled days > 0 and prior total +         *)
(* entitled days > 9) the stored approver_comments carry an explanatory    *)
(* note behind the manager's comment.                                      *)
C23_ApproveResolves ==
    [][\A u \in UserIds, i \in RequestIds, c \in WideCommentSet :
          (ApproveCall(u, i, c) /\ Pending(i) /\ IsManagerOf(u, i))
             => LET r == requests[i]
                    d == Entitlement(r).entitled_leave_days
                    p == LedgerTotal(r.user_id, r.date.year)
                IN  /\ resp'.code = 200
                    /\ requests'[i].status \in {"approved", "rejected"}
                    /\ (d > 0 /\ p + d > Cap)
                          => HasCapNote(requests'[i].approver_comments, c)]_vars

\* approve, called without a comment, has rejected a request at the cap and left
\* the note; the request that filled the year is approved
C23_Witness ==
    /\ resp = Response("approve", 200)
    /\ \E i, j \in DOMAIN requests :
          /\ requests[i].status = "rejected"
          /\ requests[i].hours > 0
          /\ requests[i].approver_comments =
                <<"Auto-rejected: Approving this request would exceed the maximum of 9 OT leave days per year.">>
          /\ requests[j].status = "approved"
          /\ LedgerTotal(requests[i].user_id, requests[i].date.year) = Cap

----------------------------------------------------------------------------
(* Vocabulary of the properties about leave types *)

MaternitySpellings == {s_maternity, s_Maternity, s_MATERNITY}

PaternitySpellings == {s_paternity, s_Paternity}

HajjSpellings == {s_hajj, s_Hajj}

FemaleSpellings == {s_female, s_Female, s_FEMALE_blanks}

MaleSpellings == {s_male, s_Male_newline}

MuslimSpellings == {s_muslim, s_Muslim_blank, s_MUSLIM_tab}

(* C24: Leave-type eligibility.  is_leave_type_eligible compares leave_type *)
(* without regard to case and returns (gender = female) for maternity,     *)
(* (gender = male) for paternity, (religion = muslim) for hajj, gender and *)
(* religion being compared after trimming whitespace and lower-casing;     *)
(* for every other leave type it returns true whatever the gender and the  *)
(* religion are.                                                           *)
C24_LeaveTypeEligibility ==
    calc.called
       => LET t == calc.leave_type
              g == calc.user.gender
              r == calc.user.religion
          IN  /\ t \in MaternitySpellings => (calc.result <=> g \in FemaleSpellings)
              /\ t \in PaternitySpellings => (calc.result <=> g \in MaleSpellings)
              /\ t \in HajjSpellings => (calc.result <=> r \in MuslimSpellings)
              /\ t \notin MaternitySpellings \cup PaternitySpellings \cup HajjSpellings
                    => calc.result = TRUE

\* "Maternity" for an employee whose gender is stored as " FEMALE ": eligible
C24_Witness ==
    /\ calc.called
    /\ calc.leave_type = s_Maternity
    /\ calc.user.gender = s_FEMALE_blanks
    /\ calc.result = TRUE

(* C25: The preview warning agrees with the approval outcome.  Whenever     *)
(* preview (or create) returns, for (employee, date, hours), the warning   *)
(* that the request will be auto-rejected, approving a pending request of  *)
(* that employee, date, hours and grade against the same ledger ends with  *)
(* the request rejected and no ledger row written.                         *)
C25_WarningAgreesWithApproval ==
    [][\A u \in UserIds, i \in RequestIds :
          (ApproveStep(u, i) /\ Pending(i) /\ IsManagerOf(u, i))
             => LET r == requests[i]
                IN  create_message(r.user_id, r.date, r.hours) = CapWarning
                       => /\ requests'[i].status = "rejected"
                          /\ ledger' = ledger]_vars

(* C26: The two cap checks can disagree.  There are a prior total p (days)  *)
(* and a request with entitled hours h for which the calculator's flag     *)
(* computed with year_total_hours = 8p, floor((8p + h) / 8) > 9, differs   *)
(* from the ledger check p + h / 8 > 9 of preview and approve; whenever    *)
(* the calculator is called with p = 8.5 (68 hours) and a request worth    *)
(* h = 8 it does not flag the request, while the ledger check does.        *)
C26_CapChecksDisagree ==
    /\ \E d \in CalcDateSet, h \in CalcHoursSet, g \in CalcGradeSet,
          y \in YearTotalHoursSet :
          LET e == calculate_overtime_entitlement(d, Fixed(h), g, Fixed(y))
              p == Fixed(y) \div 8
          IN  e.capped # exceeds_cap(p + e.entitled_leave_days)
    /\ (/\ calc.called
        /\ calc.year_total_hours = Fixed(68)
        /\ calc.result.entitled_hours = Fixed(8))
          => /\ ~ calc.result.capped
             /\ exceeds_cap(Fixed(17) \div 2 + calc.result.entitled_leave_days)

\* the calculator has been called with 68 hours of the year (8.5 days) and a
\* request worth 8 hours, and has not flagged it; the ledger check flags 9.5 days
C26_Witness ==
    /\ calc.called
    /\ calc.year_total_hours = Fixed(68)
    /\ calc.result.entitled_hours = Fixed(8)
    /\ ~ calc.result.capped
    /\ calc.year_total_hours \div 8 + calc.result.entitled_leave_days > Cap

(* C27: Preview's capped flag ignores the ledger.  In every ledger state a *)
(* successful preview returns capped = true exactly when the request's own *)
(* entitled hours are 80 or more (more than 9 whole days by themselves),   *)
(* the flag and the entitled hours being those the calculator gives for a  *)
(* year without prior hours; this includes the states where the message is *)
(* the cap warning.                                                        *)
C27_PreviewCappedIgnoresLedger ==
    \A u \in UserIds, d \in CoreDateSet, h \in FlagHoursSet :
       LET p   == preview_response(u, d, Fixed(h))
           own == calculate_overtime_entitlement(d, Fixed(h), users[u].grade, 0)
       IN  p.code = 200
              => /\ p.entitled_hours = own.entitled_hours
                 /\ p.capped <=> own.entitled_hours >= Fixed(80)

\* a preview has answered in a state with ledger rows where one request gets the
\* cap warning with capped = false and another request gets capped = true
C27_Witness ==
    /\ resp.op = "preview" /\ resp.code = 200
    /\ ledger # << >>
    /\ \E u \in UserIds, d \in CoreDateSet, h \in FlagHoursSet :
          LET p == preview_response(u, d, Fixed(h))
          IN  /\ p.code = 200
              /\ p.message = CapWarning
              /\ ~ p.capped
              /\ LedgerTotal(u, d.year) > 0
    /\ \E u \in UserIds, d \in CoreDateSet, h \in FlagHoursSet :
          LET p == preview_response(u, d, Fixed(h))
          IN  p.code = 200 /\ p.capped

(* C28: Granted amount bounds.  Every ledger row written by approve has    *)
(* leave_days > 0 and equal to min(d, 9 - p), where d is the entitled      *)
(* leave days of the request and p the prior ledger total of its employee  *)
(* for the year of the request; so the row never exceeds the request's own *)
(* entitlement, and no step lowers the yearly total of an employee.        *)
C28_GrantedAmountBounds ==
    [][/\ \A u \in Employees, y \in Years :
             YearTotal(ledger', Len(ledger'), u, y) >= LedgerTotal(u, y)
       /\ (resp'.op = "approve" /\ ledger' # ledger)
             => \E i \in DOMAIN requests :
                   LET r   == requests[i]
                       d   == Entitlement(r).entitled_leave_days
                       p   == LedgerTotal(r.user_id, r.date.year)
                       row == ledger'[Len(ledger')]
                   IN  /\ Pending(i)
                       /\ requests'[i].status = "approved"
                       /\ Len(ledger') = Len(ledger) + 1
                       /\ SubSeq(ledger', 1, Len(ledger)) = ledger
                       /\ row.overtime_request_id = i
                       /\ row.user_id = r.user_id
                       /\ row.year = r.date.year
                       /\ row.leave_days > 0
                       /\ row.leave_days = min(d, Cap - p)
                       /\ row.leave_days <= d]_vars

\* approve has written a full grant (d) and, later, a partial grant (9 - p < d);
\* requests without entitlement and requests at the cap were decided without a row
C28_Witness ==
    /\ resp.op = "approve" /\ resp.code = 200
    /\ \E k \in 1 .. Len(ledger) :
          LET row == ledger[k]
              r   == requests[row.overtime_request_id]
          IN  row.leave_days = Entitlement(r).entitled_leave_days
    /\ \E k \in 1 .. Len(ledger) :
          LET row == ledger[k]
              r   == requests[row.overtime_request_id]
          IN  /\ row.leave_days < Entitlement(r).entitled_leave_days
              /\ row.leave_days = Cap - YearTotal(ledger, k - 1, r.user_id, r.date.year)

(* C29: Authorization of transitions.  An approve or reject call on an     *)
(* existing request by anyone but the direct manager of its owner is       *)
(* answered with an error (403) and changes neither the requests nor the   *)
(* ledger; an update, patch or delete call on a request the caller does    *)
(* not own is answered with not-found (404) and changes nothing; so a step *)
(* of these handlers that changes a request is a call of the owner's       *)
(* manager (approve, reject) or of the owner (update, patch, delete).      *)
C29_Authorization ==
    [][\A i \in DOMAIN requests :
          LET owner == requests[i].user_id
          IN  /\ \A u \in UserIds :
                    /\ ((ApproveStep(u, i) \/ RejectStep(u, i))
                           /\ users[owner].manager_id # u)
                          => /\ resp'.code = 403
                             /\ requests' = requests
                             /\ ledger' = ledger
                    /\ ((UpdateCall(u, i) \/ PatchCall(u, i) \/ DeleteCall(u, i))
                           /\ owner # u)
                          => /\ resp'.code = 404
                             /\ requests' = requests
                             /\ ledger' = ledger
              /\ (i \notin DOMAIN requests' \/ requests'[i] # requests[i])
                    => \/ /\ resp'.op \in {"approve", "reject"}
                          /\ ApproveStep(users[owner].manager_id, i)
                                \/ RejectStep(users[owner].manager_id, i)
                       \/ /\ resp'.op \in {"update", "patch", "delete"}
                          /\ UpdateCall(owner, i) \/ PatchCall(owner, i)
                                \/ DeleteCall(owner, i)]_vars

\* an approve call was refused with 403 while employee 3 has a pending request:
\* its callers include user 1, the manager of the manager of employee 3
C29_Witness ==
    /\ resp.op = "approve" /\ resp.code = 403
    /\ \E i \in DOMAIN requests :
          /\ requests[i].user_id = 3
          /\ requests[i].status = "pending"
          /\ users[users[3].manager_id].manager_id = 1
    /\ ledger = << >>

\* a session is between its read of request i and its commit
InFlight(i) ==
    \E p \in Procs : txn[p].pc # "idle" /\ txn[p].request_id = i

(* C30: Concurrent decisions on one request.  When two approve calls, or   *)
(* an approve call and a reject call, on the same pending request are      *)
(* interleaved, exactly one transition is applied: the request never has   *)
(* more than one ledger row, and once no call on it is in flight it has a  *)
(* ledger row only if its status is approved.                              *)
C30_ConcurrentDecisions ==
    \A i \in DOMAIN requests :
       /\ Cardinality(RowsOf(i)) <= 1
       /\ (RowsOf(i) # {} /\ ~ InFlight(i)) => requests[i].status = "approved"

====
